---- MODULE Spec2Model ----
(***************************************************************************)
(* The SVG number scanner of svgtypes (src/src/number.rs): parse_number,   *)
(* Number::from_str, parse_list_number and the NumberListParser iterator,  *)
(* over a byte buffer and a byte cursor.                                   *)
(*                                                                         *)
(* A buffer is a sequence of bytes, each byte a one-character string; the  *)
(* two bytes "C3" "A9" stand for the two-byte UTF-8 encoding of one        *)
(* non-ASCII character, so that byte offsets and character positions       *)
(* differ.  A cursor position is a 0-based byte offset in 0..Len(text).    *)
(***************************************************************************)
EXTENDS Integers, Sequences, FiniteSets, TLC

\* Longest enumerated buffer, in characters.
MaxLen == 4
\* Most next() calls recorded on one NumberListParser.
MaxCalls == 5

----------------------------------------------------------------------------
(* Bytes and their classes (ByteExt).                                      *)

DigitBytes == {"0", "1", "2", "3", "4", "5", "6", "7", "8", "9"}

IsDigit(b) == b \in DigitBytes

IsSign(b) == b \in {"+", "-"}

IsSpace(b) == b \in {" ", "\t", "\n", "\r"}

\* A UTF-8 continuation byte: it starts no character.
IsCont(b) == b = "A9"

DigitVal(b) ==
    CASE b = "0" -> 0 [] b = "1" -> 1 [] b = "2" -> 2 [] b = "3" -> 3
      [] b = "4" -> 4 [] b = "5" -> 5 [] b = "6" -> 6 [] b = "7" -> 7
      [] b = "8" -> 8 [] b = "9" -> 9

----------------------------------------------------------------------------
(* The cursor (Stream): every operator takes the buffer t and the byte     *)
(* offset p and returns the new offset or the value read.                  *)

AtEnd(t, p) == p >= Len(t)

\* curr_byte(): the byte under the cursor, or UnexpectedEndOfStream.
CurrByteOk(t, p) == p < Len(t)

CurrByte(t, p) == t[p + 1]

\* next_byte(): the byte after the one under the cursor, not consumed.
NextByteOk(t, p) == p + 1 < Len(t)

NextByte(t, p) == t[p + 2]

RECURSIVE SkipDigits(_, _)
SkipDigits(t, p) ==
    IF p < Len(t) /\ IsDigit(t[p + 1]) THEN SkipDigits(t, p + 1) ELSE p

RECURSIVE SkipSpaces(_, _)
SkipSpaces(t, p) ==
    IF p < Len(t) /\ IsSpace(t[p + 1]) THEN SkipSpaces(t, p + 1) ELSE p

\* slice_back(start): the bytes from start up to the cursor.
SliceBack(t, start, p) == SubSeq(t, start + 1, p)

JumpToEnd(t) == Len(t)

\* calc_char_pos_at(byte_pos): 1 + the number of characters that start
\* before byte_pos.
CalcCharPosAt(t, bytePos) ==
    1 + Cardinality({i \in 1..Len(t) : ~IsCont(t[i]) /\ i - 1 < bytePos})

\* The separator skip after a list item's whitespace: at most one comma,
\* then whitespace.
ParseListSeparator(t, p) ==
    IF p < Len(t) /\ t[p + 1] = "," THEN SkipSpaces(t, p + 1) ELSE p

----------------------------------------------------------------------------
(* 64-bit floats.  A finite value is a normalised decimal: a sign, the     *)
(* significant digits without leading or trailing zeros, and the power of  *)
(* ten of the last digit; zero is the empty digit string (-0.0 = 0.0).     *)
(* An infinity has no digits and the exponent 1, which no finite value has.*)
(* Decimals of up to 15 significant digits convert to distinct doubles, so *)
(* equality of the decimals is equality of the doubles.                    *)

Zero == [neg |-> FALSE, digits |-> <<>>, exp |-> 0]

Infinity(neg) == [neg |-> neg, digits |-> <<>>, exp |-> 1]

\* f64::is_finite.
IsFinite(v) == v \notin {Infinity(TRUE), Infinity(FALSE)}

RECURSIVE StripLeadingZeros(_)
StripLeadingZeros(d) ==
    IF d # <<>> /\ d[1] = 0 THEN StripLeadingZeros(Tail(d)) ELSE d

RECURSIVE TrailingZeros(_)
TrailingZeros(d) ==
    IF d # <<>> /\ d[Len(d)] = 0
    THEN 1 + TrailingZeros(SubSeq(d, 1, Len(d) - 1))
    ELSE 0

\* The first digits of f64::MAX + half an ulp, 1.7976931348623158e308: a
\* decimal of magnitude 10^308 at or above it rounds to infinity.
MaxFiniteDigits == <<1, 7, 9, 7, 6, 9, 3, 1, 3, 4, 8, 6, 2, 3, 1, 5, 8>>

\* d >= b as decimal fractions 0.d1d2... and 0.b1b2...
RECURSIVE DigitsGeq(_, _)
DigitsGeq(d, b) ==
    IF b = <<>> THEN TRUE
    ELSE IF d = <<>> THEN \A i \in 1..Len(b) : b[i] = 0
    ELSE IF d[1] # b[1] THEN d[1] > b[1]
    ELSE DigitsGeq(Tail(d), Tail(b))

\* The double nearest to (-1)^neg * 0.d1d2..dn * 10^(n + e): infinite on
\* overflow, zero on underflow.
RoundF64(neg, ds, e) ==
    LET lead == StripLeadingZeros(ds)
        tz   == TrailingZeros(lead)
        sig  == SubSeq(lead, 1, Len(lead) - tz)
        mag  == Len(lead) + e
    IN IF sig = <<>> \/ mag < -323
       THEN [finite |-> TRUE, val |-> Zero]
       ELSE IF mag > 309 \/ (mag = 309 /\ DigitsGeq(sig, MaxFiniteDigits))
       THEN [finite |-> FALSE, val |-> Infinity(neg)]
       ELSE [finite |-> TRUE,
             val |-> [neg |-> neg, digits |-> sig, exp |-> e + tz]]

DigitSeq(s) == [i \in 1..Len(s) |-> DigitVal(s[i])]

\* The exponent's digits as an integer; the accumulator stops growing once
\* it reaches 0x10000, as the standard parser's does.
RECURSIVE ExpNum(_, _)
ExpNum(s, acc) ==
    IF s = <<>> THEN acc
    ELSE ExpNum(Tail(s), IF acc < 65536 THEN 10 * acc + DigitVal(s[1]) ELSE acc)

F64Error == [ok |-> FALSE, finite |-> FALSE, val |-> Zero]

F64Rounded(r) == [ok |-> TRUE, finite |-> r.finite, val |-> r.val]

\* The exponent's digits, from offset j to the end of the slice: at least
\* one, and nothing but digits.
F64ExpDigits(s, neg, mant, fracLen, eNeg, j) ==
    IF j < Len(s) /\ SkipDigits(s, j) = Len(s)
    THEN F64Rounded(RoundF64(neg, mant,
             (IF eNeg THEN 0 - ExpNum(SubSeq(s, j + 1, Len(s)), 0)
              ELSE ExpNum(SubSeq(s, j + 1, Len(s)), 0)) - fracLen))
    ELSE F64Error

\* What follows the mantissa, which ends at offset i: nothing, or an
\* exponent marker with an optional sign.
F64Exponent(s, neg, mant, fracLen, i) ==
    IF i = Len(s) THEN F64Rounded(RoundF64(neg, mant, 0 - fracLen))
    ELSE IF s[i + 1] \notin {"e", "E"} THEN F64Error
    ELSE IF i + 1 < Len(s) /\ IsSign(s[i + 2])
         THEN F64ExpDigits(s, neg, mant, fracLen, s[i + 2] = "-", i + 2)
         ELSE F64ExpDigits(s, neg, mant, fracLen, FALSE, i + 1)

\* The mantissa's integer and fraction digits, ending at offset i: at
\* least one digit between them.
F64Mantissa(s, neg, intD, fracD, i) ==
    IF intD = <<>> /\ fracD = <<>> THEN F64Error
    ELSE F64Exponent(s, neg, DigitSeq(intD \o fracD), Len(fracD), i)

\* The fraction, after integer digits that run from offset i0 to i1.
F64Fraction(s, neg, i0, i1) ==
    IF i1 < Len(s) /\ s[i1 + 1] = "."
    THEN F64Mantissa(s, neg, SubSeq(s, i0 + 1, i1),
                     SubSeq(s, i1 + 2, SkipDigits(s, i1 + 1)),
                     SkipDigits(s, i1 + 1))
    ELSE F64Mantissa(s, neg, SubSeq(s, i0 + 1, i1), <<>>, i1)

\* f64::from_str on a slice: [sign] digits [. digits] [(e|E) [sign] digits],
\* with a digit in the mantissa and in the exponent, and nothing left over.
F64FromStr(s) ==
    IF s # <<>> /\ IsSign(s[1])
    THEN F64Fraction(s, s[1] = "-", 1, SkipDigits(s, 1))
    ELSE F64Fraction(s, FALSE, 0, SkipDigits(s, 0))

----------------------------------------------------------------------------
(* Results.  One record shape for every Result<f64, Error> and for the     *)
(* iterator's None.                                                        *)

Ok(v) == [tag |-> "Ok", val |-> v, p |-> 0]

InvalidNumber(p) == [tag |-> "InvalidNumber", val |-> Zero, p |-> p]

UnexpectedEndOfStream == [tag |-> "UnexpectedEndOfStream", val |-> Zero, p |-> 0]

UnexpectedData(p) == [tag |-> "UnexpectedData", val |-> Zero, p |-> p]

None == [tag |-> "None", val |-> Zero, p |-> 0]

\* The call did not return: a slice or an advance out of the buffer's bounds
\* aborts the program.
Abort == [tag |-> "Abort", val |-> Zero, p |-> 0]

\* No call has returned yet.
NoResult == [tag |-> "NoResult", val |-> Zero, p |-> 0]

IsErr(r) == r.tag \in {"InvalidNumber", "UnexpectedEndOfStream", "UnexpectedData"}

\* A call's outcome: what it returned and where it left the cursor.
Outcome(r, p) == [res |-> r, pos |-> p]

----------------------------------------------------------------------------
(* parse_number_impl, in the order of its steps.                           *)

\* Slice back to start and convert; a conversion failure or a non-finite
\* value is InvalidNumber(0).  A cursor past the end is out of the slice's
\* bounds.
\* Mutant of FiniteOrError: the converted value is returned unchecked.
FiniteOrErrorUnchecked(f, p) ==
    IF f.ok THEN Outcome(Ok(f.val), p) ELSE Outcome(InvalidNumber(0), p)

\* Mutant of FiniteOrError: a slice the conversion rejects counts as 0.
FiniteOrErrorDefault(f, p) ==
    IF ~f.ok THEN Outcome(Ok(Zero), p)
    ELSE IF f.finite THEN Outcome(Ok(f.val), p)
    ELSE Outcome(InvalidNumber(0), p)

FiniteOrError(f, p) ==
    IF f.ok /\ IsFinite(f.val) THEN Outcome(Ok(f.val), p)
    ELSE Outcome(InvalidNumber(0), p)

Convert(t, start, p) ==
    IF p > Len(t) THEN Outcome(Abort, p)
    ELSE FiniteOrError(F64FromStr(SliceBack(t, start, p)), p)

\* Mutant of IsUnitSuffix: only `em` is a unit.
IsUnitSuffixEm(c2) == c2 = "m"

\* The check for `em`/`ex`: the byte after the marker is a unit's.
IsUnitSuffix(c2) == c2 \in {"m", "x"}

\* Mutant of BadExponent: the mantissa is returned and the marker left.
BadExponentFallback(t, start, p) == Convert(t, start, p - 1)

\* The marker is followed by neither a sign nor a digit.
BadExponent(t, start, p) == Outcome(InvalidNumber(0), p)

\* The exponent, with the cursor p after the mantissa.
ConsumeExponent(t, start, p) ==
    IF CurrByteOk(t, p) /\ CurrByte(t, p) \in {"e", "E"}
    THEN IF ~NextByteOk(t, p) THEN Outcome(UnexpectedEndOfStream, p)
         ELSE IF IsUnitSuffix(NextByte(t, p)) THEN Convert(t, start, p)
         ELSE IF ~CurrByteOk(t, p + 1)
              THEN Outcome(UnexpectedEndOfStream, p + 1)
         ELSE IF CurrByte(t, p + 1) \in {"+", "-"}
              THEN Convert(t, start, SkipDigits(t, p + 2))
         ELSE IF IsDigit(CurrByte(t, p + 1))
              THEN Convert(t, start, SkipDigits(t, p + 1))
         ELSE BadExponent(t, start, p + 1)
    ELSE Convert(t, start, p)

\* Mutant of ConsumeFraction: the '.' is consumed and its digits are not.
ConsumeFractionDotOnly(t, p) ==
    IF CurrByteOk(t, p) /\ CurrByte(t, p) = "." THEN p + 1 ELSE p

\* Mutant of ConsumeFraction: the end of the buffer is taken for a '.'.
ConsumeFractionPastEnd(t, p) ==
    IF ~CurrByteOk(t, p) \/ CurrByte(t, p) = "." THEN SkipDigits(t, p + 1) ELSE p

\* The fraction: a '.' and the digits after it.
ConsumeFraction(t, p) ==
    IF CurrByteOk(t, p) /\ CurrByte(t, p) = "." THEN SkipDigits(t, p + 1) ELSE p

\* The sign.
ConsumeSign(t, p) == IF IsSign(CurrByte(t, p)) THEN p + 1 ELSE p

\* The integer part, with the cursor p on the byte after the sign.
ConsumeInteger(t, start, p) ==
    IF ~CurrByteOk(t, p) THEN Outcome(UnexpectedEndOfStream, p)
    ELSE IF IsDigit(CurrByte(t, p))
         THEN ConsumeExponent(t, start, ConsumeFraction(t, SkipDigits(t, p)))
    ELSE IF CurrByte(t, p) = "."
         THEN ConsumeExponent(t, start, ConsumeFraction(t, p))
    ELSE Outcome(InvalidNumber(0), p)

ParseNumberImpl(t, start) ==
    IF ~CurrByteOk(t, start) THEN Outcome(UnexpectedEndOfStream, start)
    ELSE ConsumeInteger(t, start, ConsumeSign(t, start))

----------------------------------------------------------------------------
(* parse_number, Number::from_str, parse_list_number, next.                *)

\* Mutant of MapErr: the error carries the position the scan stopped at.
MapErrAtCursor(t, start, o) ==
    IF IsErr(o.res) THEN Outcome(InvalidNumber(CalcCharPosAt(t, o.pos)), o.pos)
    ELSE o

\* Mutant of MapErr: the error carries start as a 1-based byte offset.
MapErrByteOffset(t, start, o) ==
    IF IsErr(o.res) THEN Outcome(InvalidNumber(start + 1), o.pos) ELSE o

\* map_err: whatever the scan failed with, and wherever, the error is
\* InvalidNumber at the character position of start.
MapErr(t, start, o) ==
    IF IsErr(o.res) THEN Outcome(InvalidNumber(CalcCharPosAt(t, start)), o.pos)
    ELSE o

\* Mutant of ParseNumberAt: the scan's own error is returned as it is.
ParseNumberAtUnmapped(t, start) ==
    IF AtEnd(t, start)
    THEN Outcome(InvalidNumber(CalcCharPosAt(t, start)), start)
    ELSE ParseNumberImpl(t, start)

\* parse_number once the leading whitespace is skipped and start recorded.
ParseNumberAt(t, start) ==
    IF AtEnd(t, start)
    THEN Outcome(InvalidNumber(CalcCharPosAt(t, start)), start)
    ELSE MapErr(t, start, ParseNumberImpl(t, start))

\* Mutant of ParseNumber: the whitespace after the number is skipped too.
SkipTrailing(t, o) == Outcome(o.res, SkipSpaces(t, o.pos))

ParseNumberAndTrailing(t, p) ==
    SkipTrailing(t, ParseNumberAt(t, SkipSpaces(t, p)))

\* Mutant of ParseNumber: a comma before the number is skipped as well.
ParseNumberSkipComma(t, p) ==
    ParseNumberAt(t, ParseListSeparator(t, SkipSpaces(t, p)))

\* Stream::parse_number.
ParseNumber(t, p) == ParseNumberAt(t, SkipSpaces(t, p))

\* Mutant of CheckRemainder: the whitespace after the number is not skipped
\* before the cursor is tested.
CheckRemainderNoSkip(t, o) ==
    IF IsErr(o.res) THEN o
    ELSE IF ~AtEnd(t, o.pos)
         THEN Outcome(UnexpectedData(CalcCharPosAt(t, o.pos)), o.pos)
    ELSE o

\* What from_str makes of parse_number's outcome o: its error, or, with
\* the whitespace after the number skipped, UnexpectedData unless the
\* cursor is at the end.
CheckRemainder(t, o) ==
    IF IsErr(o.res) THEN o
    ELSE IF ~AtEnd(t, SkipSpaces(t, o.pos))
         THEN Outcome(UnexpectedData(CalcCharPosAt(t, SkipSpaces(t, o.pos))),
                      SkipSpaces(t, o.pos))
    ELSE Outcome(o.res, SkipSpaces(t, o.pos))

FromStr(t) == CheckRemainder(t, ParseNumber(t, 0))

\* Mutant of SkipSeparator: the whitespace before the separator is not
\* skipped.
SkipSeparatorNoSpaces(t, o) ==
    IF IsErr(o.res) THEN o ELSE Outcome(o.res, ParseListSeparator(t, o.pos))

\* Mutant of SkipSeparator: nothing is skipped after the number.
SkipSeparatorNothing(t, o) == o

\* Mutant of SkipSeparator: the list separator is not parsed.
SkipSeparatorSpacesOnly(t, o) ==
    IF IsErr(o.res) THEN o ELSE Outcome(o.res, SkipSpaces(t, o.pos))

\* What parse_list_number makes of parse_number's outcome o: its error,
\* or the number with whitespace and the list separator skipped.
SkipSeparator(t, o) ==
    IF IsErr(o.res) THEN o
    ELSE Outcome(o.res, ParseListSeparator(t, SkipSpaces(t, o.pos)))

\* Mutant of ParseListNumber: the end of the buffer is left to parse_number.
ParseListNumberNoEndCheck(t, p) == SkipSeparator(t, ParseNumber(t, p))

\* Stream::parse_list_number.
ParseListNumber(t, p) ==
    IF AtEnd(t, p) THEN Outcome(UnexpectedEndOfStream, p)
    ELSE SkipSeparator(t, ParseNumber(t, p))

\* Mutant of JumpOnError: the cursor stays where the failed scan left it.
JumpOnErrorStay(t, o) == o

\* What next() makes of parse_list_number's outcome o: on an error the
\* cursor jumps to the end.
JumpOnError(t, o) ==
    IF IsErr(o.res) THEN Outcome(o.res, JumpToEnd(t)) ELSE o

\* Mutant of IterNext: next() does not look for the end of the buffer.
IterNextNoEndCheck(t, p) == JumpOnError(t, ParseListNumber(t, p))

\* NumberListParser::next.
IterNext(t, p) ==
    IF AtEnd(t, p) THEN Outcome(None, p)
    ELSE JumpOnError(t, ParseListNumber(t, p))

----------------------------------------------------------------------------
(* Inputs: every buffer of up to MaxLen characters over Chars, and the     *)
(* inputs of the tests and of the documentation example.                   *)

Chars == {<<"1">>, <<"-">>, <<".">>, <<"e">>, <<"x">>, <<" ">>, <<",">>,
          <<"C3", "A9">>}

RECURSIVE Texts(_)
Texts(n) ==
    IF n = 0 THEN {<<>>}
    ELSE LET S == Texts(n - 1) IN S \cup {s \o c : s \in S, c \in Chars}

Examples ==
    { <<"1", "0", ",", " ", "2", "0", " ", "-", "5", "0">>,
      <<"-", ".", "4", "t", "e", "x", "t">>,
      <<"-", ".", "0", "1", " ", "4">>,
      <<"-", ".", "0", "1", " ", "t", "e", "x", "t">>,
      <<"9", "9", "9", "9", "9", "9", "9", "9", "e",
        "9", "9", "9", "9", "9", "9", "9", "9">>,
      <<"-", "9", "9", "9", "9", "9", "9", "9", "9", "e",
        "9", "9", "9", "9", "9", "9", "9", "9">>,
      <<"1", "2", "3", "4", "5", "6", ".", "1", "2", "3", "4", "5", "6">>,
      <<"1", ".", "3", "e", "-", "2">>,
      <<"1", "e", "+", "2">>,
      <<"1", "E", "2">>,
      <<"1", "e", "m">>,
      <<"1", "E", "x">>,
      <<"+", "1", "0">>,
      <<"0", ".">>,
      <<".", "4">>,
      <<"0">>,
      <<"+">>,
      <<"q">>,
      <<"-", "q">>,
      <<"\t", "1", "\n">>,
      <<"1", "e", "+">>,
      <<"1", "E">>,
      <<"+", ".">>,
      <<".", "e", "5">>,
      <<"1", ",", ",", "2">>,
      <<"1", "0", ",", " ", "2", "0", ",">>,
      <<",", "1", "0">> }

Inputs == Texts(MaxLen) \cup Examples

----------------------------------------------------------------------------
(* The state machine.                                                      *)

VARIABLES
    text,   \* the buffer
    pos,    \* the cursor's byte offset
    api,    \* who owns the cursor: "none" yet, a "stream" user, "from_str",
            \* or a NumberListParser ("list")
    op,     \* the last call made
    pre,    \* the cursor's offset when that call began
    res,    \* what that call returned
    trace   \* what the NumberListParser's next() calls returned, in order

vars == <<text, pos, api, op, pre, res, trace>>

Init ==
    /\ text \in Inputs
    /\ pos = 0
    /\ api = "none"
    /\ op = "none"
    /\ pre = 0
    /\ res = NoResult
    /\ trace = <<>>

\* A user of the stream moves the cursor over the character under it.
Advance ==
    /\ api \in {"none", "stream"}
    /\ pos < Len(text)
    /\ pos' = IF NextByteOk(text, pos) /\ IsCont(NextByte(text, pos))
              THEN pos + 2 ELSE pos + 1
    /\ api' = "stream"
    /\ op' = "none"
    /\ pre' = pos'
    /\ res' = NoResult
    /\ UNCHANGED <<text, trace>>

ParseNumberCall ==
    /\ api \in {"none", "stream"}
    /\ \E o \in {ParseNumber(text, pos)} :
          /\ pos' = o.pos
          /\ res' = o.res
    /\ api' = "stream"
    /\ op' = "parse_number"
    /\ pre' = pos
    /\ UNCHANGED <<text, trace>>

ParseListNumberCall ==
    /\ api \in {"none", "stream"}
    /\ \E o \in {ParseListNumber(text, pos)} :
          /\ pos' = o.pos
          /\ res' = o.res
    /\ api' = "stream"
    /\ op' = "parse_list_number"
    /\ pre' = pos
    /\ UNCHANGED <<text, trace>>

FromStrCall ==
    /\ api = "none"
    /\ \E o \in {FromStr(text)} :
          /\ pos' = o.pos
          /\ res' = o.res
    /\ api' = "from_str"
    /\ op' = "from_str"
    /\ pre' = pos
    /\ UNCHANGED <<text, trace>>

NextCall ==
    /\ api \in {"none", "list"}
    /\ Len(trace) < MaxCalls
    /\ \E o \in {IterNext(text, pos)} :
          /\ pos' = o.pos
          /\ res' = o.res
          /\ trace' = Append(trace, o.res)
    /\ api' = "list"
    /\ op' = "next"
    /\ pre' = pos
    /\ UNCHANGED text

Next ==
    \/ Advance
    \/ ParseNumberCall
    \/ ParseListNumberCall
    \/ FromStrCall
    \/ NextCall

Spec == Init /\ [][Next]_vars

----------------------------------------------------------------------------
(* The vocabulary of the properties: the SVG number grammar and the value  *)
(* of a lexeme, stated on the text alone and not by the scanner.           *)

Unsigned(s) == IF s # <<>> /\ IsSign(s[1]) THEN Tail(s) ELSE s

AllDigits(s) == s # <<>> /\ \A i \in 1..Len(s) : IsDigit(s[i])

\* A digit run with an optional '.' and optional fraction digits, or a '.'
\* followed by at least one digit.
IsMantissa(s) ==
    /\ \A i \in 1..Len(s) : IsDigit(s[i]) \/ s[i] = "."
    /\ Cardinality({i \in 1..Len(s) : s[i] = "."}) <= 1
    /\ \E i \in 1..Len(s) : IsDigit(s[i])

IsSignedMantissa(s) == IsMantissa(Unsigned(s))

\* An optional sign, a mantissa, and optionally an exponent marker with an
\* optional sign and at least one digit.
IsLexeme(s) ==
    \E k \in 1..Len(s) :
        /\ IsSignedMantissa(SubSeq(s, 1, k))
        /\ \/ k = Len(s)
           \/ /\ s[k + 1] \in {"e", "E"}
              /\ AllDigits(Unsigned(SubSeq(s, k + 2, Len(s))))

RECURSIVE DecimalInt(_)
DecimalInt(d) ==
    IF d = <<>> THEN 0
    ELSE 10 * DecimalInt(SubSeq(d, 1, Len(d) - 1)) + DigitVal(d[Len(d)])

\* The double nearest to the decimal value of the lexeme s.
LexemeValue(s) ==
    LET markers == {i \in 1..Len(s) : s[i] \in {"e", "E"}}
        m       == IF markers = {} THEN Len(s) + 1 ELSE CHOOSE i \in markers : TRUE
        dots    == {i \in 1..(m - 1) : s[i] = "."}
        fracLen == IF dots = {} THEN 0 ELSE (m - 1) - (CHOOSE i \in dots : TRUE)
        digs    == SelectSeq(SubSeq(s, 1, m - 1), IsDigit)
        tail    == SubSeq(s, m + 1, Len(s))
        expo    == IF tail = <<>> THEN 0
                   ELSE IF tail[1] = "-" THEN 0 - DecimalInt(Tail(tail))
                   ELSE DecimalInt(Unsigned(tail))
    IN RoundF64(s[1] = "-", DigitSeq(digs), expo - fracLen)

\* The offset of the first byte at or after p that is not whitespace, or
\* the length of t when there is none.
FirstNonSpace(t, p) ==
    CHOOSE q \in p..Len(t) :
        /\ q = Len(t) \/ ~IsSpace(t[q + 1])
        /\ \A r \in p..(q - 1) : IsSpace(t[r + 1])

\* The 1-based position, in characters, of the character at byte offset q,
\* or one past the last character when q is the length of t.
CharPosition(t, q) ==
    Len(SelectSeq(SubSeq(t, 1, q), LAMBDA b : ~IsCont(b))) + 1

\* t without its leading and trailing whitespace.
Trimmed(t) ==
    LET inner == {i \in 1..Len(t) : ~IsSpace(t[i])}
    IN IF inner = {} THEN <<>>
       ELSE SubSeq(t, CHOOSE i \in inner : \A j \in inner : i <= j,
                      CHOOSE i \in inner : \A j \in inner : j <= i)

\* The offset where the longest lexeme that starts at offset q ends.
LexemeEnds(t, q) == {k \in (q + 1)..Len(t) : IsLexeme(SubSeq(t, q + 1, k))}

LongestLexemeEnd(t, q) ==
    CHOOSE k \in LexemeEnds(t, q) : \A j \in LexemeEnds(t, q) : j <= k

\* The part of the buffer the last call began on, and where its token starts.
Rest == SubSeq(text, pre + 1, Len(text))

TokenStart == FirstNonSpace(text, pre)

----------------------------------------------------------------------------
(* C1: a NumberListParser yields at most one error, as its last item.      *)

ErrIndexes == {i \in 1..Len(trace) : IsErr(trace[i])}

\* C1: in every sequence of next() calls at most one call returns an Err,
\* every call after it returns None, and the cursor is at the end of the
\* buffer once the Err was returned.
C1_AtMostOneErrorAndItIsLast ==
    /\ Cardinality(ErrIndexes) <= 1
    /\ \A i \in ErrIndexes : \A j \in (i + 1)..Len(trace) : trace[j] = None
    /\ ErrIndexes # {} => pos = Len(text)

\* An Ok item, then an Err at a character of the buffer, then two calls.
C1_Witness ==
    /\ Len(trace) >= 4
    /\ trace[1].tag = "Ok"
    /\ IsErr(trace[2])
    /\ trace[2].p < CharPosition(text, Len(text))
    /\ trace[4] = None

----------------------------------------------------------------------------
(* C2: Number::from_str.                                                   *)

\* C2 as stated: from_str returns Ok exactly when the text is whitespace, a
\* lexeme and whitespace.
C2_OkIffPaddedLexeme ==
    op = "from_str" => (res.tag = "Ok" <=> IsLexeme(Trimmed(text)))

\* C2, amended: from_str returns Ok exactly when the text is whitespace, a
\* lexeme whose value is finite, and whitespace; and when parse_number
\* succeeds and a byte that is not whitespace follows the number and its
\* whitespace, the result is UnexpectedData at the character position of
\* that byte.
C2_OkIffPaddedFiniteLexeme ==
    op = "from_str" =>
        /\ res.tag = "Ok" <=>
               (IsLexeme(Trimmed(text)) /\ LexemeValue(Trimmed(text)).finite)
        /\ \A o \in {ParseNumber(text, 0)} :
               (o.res.tag = "Ok" /\ FirstNonSpace(text, o.pos) < Len(text)) =>
                   res = UnexpectedData(
                             CharPosition(text, FirstNonSpace(text, o.pos)))

\* from_str scanned a number, skipped the whitespace after it and reported
\* the character that follows.
C2_Witness ==
    /\ op = "from_str"
    /\ res.tag = "UnexpectedData"
    /\ res.p > 2
    /\ IsSpace(text[res.p - 1])

----------------------------------------------------------------------------
(* C3, C4, C5: the error of parse_number.                                  *)

\* C3 as stated: a failure of parse_number reports the position the cursor
\* had when the call began, before the leading whitespace was skipped.
C3_PositionBeforeWhitespace ==
    (op = "parse_number" /\ IsErr(res)) => res.p = CalcCharPosAt(text, pre)

\* C3, amended: a failure of parse_number reports the position captured
\* after the leading whitespace was skipped, and not the position the scan
\* reached; so the position is the same however far the scan progressed.
C3_PositionAfterWhitespace ==
    (op = "parse_number" /\ IsErr(res)) =>
        res.p = CalcCharPosAt(text, SkipSpaces(text, pre))

\* A failure after leading whitespace, with the scan stopped further on.
C3_Witness ==
    /\ op = "parse_number"
    /\ IsErr(res)
    /\ pre < SkipSpaces(text, pre)
    /\ SkipSpaces(text, pre) < pos

ErrPos1Inputs == {<<>>, <<"-">>, <<"+">>, <<"q">>, <<"-", "q">>, <<".">>}

\* C4: the position in the error of parse_number is the 1-based character
\* position of the first byte that is not whitespace, or one past the last
\* character; "", "-", "+", "q", "-q" and "." report position 1.
C4_PositionIsTokenCharacter ==
    (op = "parse_number" /\ res.tag = "InvalidNumber") =>
        /\ res.p = CharPosition(text, TokenStart)
        /\ (text \in ErrPos1Inputs /\ pre = 0) => res.p = 1

\* A failure whose token starts after a two-byte character, with the scan
\* stopped past the token's first byte.
C4_Witness ==
    /\ op = "parse_number"
    /\ res.tag = "InvalidNumber"
    /\ res.p < TokenStart + 1
    /\ TokenStart < pos

\* C5: parse_number returns a number or InvalidNumber, never
\* UnexpectedEndOfStream nor UnexpectedData.
C5_OnlyInvalidNumber ==
    op = "parse_number" => res.tag \in {"Ok", "InvalidNumber"}

\* The scan ran off the end of the buffer in the middle of a token.
C5_Witness ==
    /\ op = "parse_number"
    /\ TokenStart < Len(text)
    /\ ParseNumberImpl(text, TokenStart).res = UnexpectedEndOfStream
    /\ res.tag = "InvalidNumber"

----------------------------------------------------------------------------
(* C6, C7: the exponent marker.                                            *)

\* A signed mantissa runs from the token's start to offset k and an
\* exponent marker follows it.
MarkerAfterMantissa(k) ==
    /\ IsSignedMantissa(SubSeq(text, TokenStart + 1, k))
    /\ k < Len(text)
    /\ text[k + 1] \in {"e", "E"}

UnitAfterMarker(k) == k + 2 <= Len(text) /\ text[k + 2] \in {"m", "x"}

\* A digit follows the marker and its optional sign.
DigitAfterMarker(k) ==
    \/ k + 2 <= Len(text) /\ IsDigit(text[k + 2])
    \/ k + 3 <= Len(text) /\ IsSign(text[k + 2]) /\ IsDigit(text[k + 3])

\* C6: when 'e' or 'E' follows the mantissa and 'm' or 'x' follows that,
\* parse_number returns the value of the mantissa and leaves the cursor on
\* the marker.
C6_UnitSuffixNotConsumed ==
    op = "parse_number" =>
        \A k \in (TokenStart + 1)..Len(text) :
            (MarkerAfterMantissa(k) /\ UnitAfterMarker(k)) =>
                /\ res = Ok(LexemeValue(SubSeq(text, TokenStart + 1, k)).val)
                /\ pos = k

\* A mantissa with a fraction, then `ex`.
C6_Witness ==
    /\ op = "parse_number"
    /\ res.tag = "Ok"
    /\ \E k \in (TokenStart + 2)..Len(text) :
           MarkerAfterMantissa(k) /\ UnitAfterMarker(k) /\ pos = k

----------------------------------------------------------------------------
(* C8, C9: the value and the extent of a parsed number.                    *)

\* C8 as stated: on a buffer that is one lexeme, parse_number returns the
\* lexeme's value and consumes it all.
C8_LexemeParses ==
    (op = "parse_number" /\ IsLexeme(Rest)) =>
        /\ res = Ok(LexemeValue(Rest).val)
        /\ pos = Len(text)

\* C8, amended: on a buffer that is one lexeme whose value is finite,
\* parse_number returns the lexeme's value and consumes it all.
C8_FiniteLexemeParses ==
    (op = "parse_number" /\ IsLexeme(Rest) /\ LexemeValue(Rest).finite) =>
        /\ res = Ok(LexemeValue(Rest).val)
        /\ pos = Len(text)

\* A lexeme with a sign, a fraction and a signed exponent was parsed.
C8_Witness ==
    /\ op = "parse_number"
    /\ pre = 0
    /\ text = <<"1", ".", "3", "e", "-", "2">>
    /\ res = Ok([neg |-> FALSE, digits |-> <<1, 3>>, exp |-> -3])

\* C9: after parse_number returns Ok the cursor is at the end of the
\* longest lexeme that starts at the first byte that is not whitespace.
C9_CursorAtLexemeEnd ==
    (op = "parse_number" /\ res.tag = "Ok") =>
        /\ LexemeEnds(text, TokenStart) # {}
        /\ pos = LongestLexemeEnd(text, TokenStart)

\* Leading whitespace was skipped and the number is followed by whitespace,
\* which is left.
C9_Witness ==
    /\ op = "parse_number"
    /\ res.tag = "Ok"
    /\ pre < TokenStart
    /\ pos < Len(text)
    /\ IsSpace(text[pos + 1])

----------------------------------------------------------------------------
(* C10: a list of numbers.                                                 *)

\* Whitespace and at most one comma, and not nothing.
IsSeparator(s) ==
    /\ s # <<>>
    /\ \A i \in 1..Len(s) : IsSpace(s[i]) \/ s[i] = ","
    /\ Cardinality({i \in 1..Len(s) : s[i] = ","}) <= 1

\* The ways to read t as lexemes with a separator between consecutive ones,
\* or nothing before a lexeme that starts with a sign: each a sequence of
\* lexemes.
RECURSIVE LexemeLists(_)
LexemeLists(t) ==
    (IF IsLexeme(t) THEN {<<t>>} ELSE {}) \cup
    UNION { { <<SubSeq(t, 1, k)>> \o rest :
                  rest \in LexemeLists(SubSeq(t, j, Len(t))) } :
            <<k, j>> \in { kj \in (1..Len(t)) \X (1..Len(t)) :
                /\ kj[1] < kj[2]
                /\ IsLexeme(SubSeq(t, 1, kj[1]))
                /\ \/ IsSeparator(SubSeq(t, kj[1] + 1, kj[2] - 1))
                   \/ kj[2] = kj[1] + 1 /\ IsSign(t[kj[2]]) } }

AllFinite(L) == \A i \in 1..Len(L) : LexemeValue(L[i]).finite

\* The first n returns of next() are the values of the lexemes of L, in
\* order, and None from then on.
YieldsValuesOf(L) ==
    \A i \in 1..Len(trace) :
        trace[i] = IF i <= Len(L) THEN Ok(LexemeValue(L[i]).val) ELSE None

\* C10 as stated: over a list of k lexemes the iterator yields the k values
\* in order and then None.
C10_ListYieldsItsValues ==
    api = "list" => \A L \in LexemeLists(text) : YieldsValuesOf(L)

\* C10, amended: over a list of k lexemes whose values are finite the
\* iterator yields the k values in order and then None.
C10_FiniteListYieldsItsValues ==
    api = "list" =>
        \A L \in LexemeLists(text) : AllFinite(L) => YieldsValuesOf(L)

\* "10, 20 -50" was iterated to its end.
C10_Witness ==
    /\ text = <<"1", "0", ",", " ", "2", "0", " ", "-", "5", "0">>
    /\ trace = << Ok([neg |-> FALSE, digits |-> <<1>>, exp |-> 1]),
                  Ok([neg |-> FALSE, digits |-> <<2>>, exp |-> 1]),
                  Ok([neg |-> TRUE, digits |-> <<5>>, exp |-> 1]),
                  None >>

----------------------------------------------------------------------------
(* C11: the mantissa needs a digit.                                        *)

\* The offset after the token's optional sign.
MantissaStart ==
    IF TokenStart < Len(text) /\ IsSign(text[TokenStart + 1])
    THEN TokenStart + 1 ELSE TokenStart

DigitAt(q) == q < Len(text) /\ IsDigit(text[q + 1])

DotAt(q) == q < Len(text) /\ text[q + 1] = "."

\* No digit and no exponent marker is at offset q.
MantissaEndsAt(q) == q >= Len(text) \/ text[q + 1] \notin DigitBytes \cup {"e", "E"}

LoneDotInputs == {<<".">>, <<"+", ".">>, <<"-", ".">>, <<".", "e", "5">>}

\* C11: a '.' with no digit before it and none after it fails with
\* InvalidNumber, as ".", "+.", "-." and ".e5" do; digits followed by a '.'
\* and no fraction are accepted up to the '.', as "0." is; a '.' followed
\* by digits is accepted, as ".4" is.
C11_MantissaNeedsADigit ==
    op = "parse_number" =>
        /\ (DotAt(MantissaStart) /\ ~DigitAt(MantissaStart + 1)) =>
               res.tag = "InvalidNumber"
        /\ (text \in LoneDotInputs /\ pre = 0) => res = InvalidNumber(1)
        /\ \A k \in (MantissaStart + 2)..Len(text) :
               (/\ AllDigits(SubSeq(text, MantissaStart + 1, k - 1))
                /\ text[k] = "."
                /\ MantissaEndsAt(k)) =>
                   /\ res = Ok(LexemeValue(SubSeq(text, TokenStart + 1, k)).val)
                   /\ pos = k
        /\ \A k \in (MantissaStart + 2)..Len(text) :
               (/\ DotAt(MantissaStart)
                /\ AllDigits(SubSeq(text, MantissaStart + 2, k))
                /\ MantissaEndsAt(k)) =>
                   /\ res = Ok(LexemeValue(SubSeq(text, TokenStart + 1, k)).val)
                   /\ pos = k
        /\ (text = <<"0", ".">> /\ pre = 0) => res = Ok(Zero)
        /\ (text = <<".", "4">> /\ pre = 0) =>
               res = Ok([neg |-> FALSE, digits |-> <<4>>, exp |-> -1])

\* A signed '.' with an exponent marker after it was rejected.
C11_Witness ==
    /\ op = "parse_number"
    /\ res.tag = "InvalidNumber"
    /\ MantissaStart > TokenStart
    /\ DotAt(MantissaStart)
    /\ MantissaStart + 1 < Len(text)
    /\ text[MantissaStart + 2] = "e"

----------------------------------------------------------------------------
(* C12: no value that is not finite.                                       *)

OverflowInputs ==
    { <<"9", "9", "9", "9", "9", "9", "9", "9", "e",
        "9", "9", "9", "9", "9", "9", "9", "9">>,
      <<"-", "9", "9", "9", "9", "9", "9", "9", "9", "e",
        "9", "9", "9", "9", "9", "9", "9", "9">> }

\* C12: a value parse_number returns is finite; when the longest lexeme
\* at the token's start converts to an infinity the result is
\* InvalidNumber, as it is for "99999999e99999999" and its negative.
C12_NeverNonFinite ==
    op = "parse_number" =>
        /\ res.tag = "Ok" => IsFinite(res.val)
        /\ (/\ LexemeEnds(text, TokenStart) # {}
            /\ ~IsFinite(LexemeValue(SubSeq(text, TokenStart + 1,
                             LongestLexemeEnd(text, TokenStart))).val)) =>
               res.tag = "InvalidNumber"
        /\ (text \in OverflowInputs /\ pre = 0) => res = InvalidNumber(1)

\* The whole of a negative lexeme that overflows was scanned and rejected.
C12_Witness ==
    /\ op = "parse_number"
    /\ res.tag = "InvalidNumber"
    /\ Rest # <<>>
    /\ Rest[1] = "-"
    /\ IsLexeme(Rest)
    /\ ~IsFinite(LexemeValue(Rest).val)
    /\ pos = Len(text)

----------------------------------------------------------------------------
(* C13: the separator skip.                                                *)

\* The offset where the longest run of whitespace with at most one comma
\* that starts at offset q ends.
SeparatorEnd(t, q) ==
    CHOOSE e \in q..Len(t) :
        /\ e = q \/ IsSeparator(SubSeq(t, q + 1, e))
        /\ \A f \in (e + 1)..Len(t) : ~IsSeparator(SubSeq(t, q + 1, f))

\* C13: after a number is scanned in list context the cursor is past the
\* whitespace, at most one comma and the whitespace that follow the number,
\* so at the end of the buffer or on a byte that is not whitespace; over
\* "1,,2" the second comma is left and the next item is InvalidNumber.
C13_SeparatorSkip ==
    /\ (op \in {"next", "parse_list_number"} /\ res.tag = "Ok") =>
           /\ pos = Len(text) \/ ~IsSpace(text[pos + 1])
           /\ pos = SeparatorEnd(text, LongestLexemeEnd(text, TokenStart))
    /\ (text = <<"1", ",", ",", "2">> /\ Len(trace) >= 2) =>
           /\ trace[1] = Ok([neg |-> FALSE, digits |-> <<1>>, exp |-> 0])
           /\ trace[2] = InvalidNumber(3)

\* Whitespace and a comma were skipped and a second comma is under the
\* cursor.
C13_Witness ==
    /\ op = "next"
    /\ res.tag = "Ok"
    /\ pos >= 3
    /\ pos < Len(text)
    /\ text[pos + 1] = ","
    /\ text[pos] = ","
    /\ IsSpace(text[pos - 1])

----------------------------------------------------------------------------
(* C14: the cursor stays in the buffer.                                    *)

ReturnTags ==
    {"NoResult", "Ok", "InvalidNumber", "UnexpectedEndOfStream",
     "UnexpectedData", "None"}

\* C14: after every sequence of calls the cursor is in 0..Len(text), so
\* that no advance moved it past the end (the cursor only moves forward
\* within a call), and every call returned a value or an error: none
\* aborted.
C14_CursorInBounds ==
    /\ pos \in 0..Len(text)
    /\ pre <= pos
    /\ res.tag \in ReturnTags

\* A buffer that ends on a sign after at least one other byte: the scan
\* advanced over the sign to the very end of the buffer, found no byte
\* there, and the call returned an error.
C14_Witness ==
    /\ op = "parse_number"
    /\ IsErr(res)
    /\ Len(text) >= 2
    /\ IsSign(text[Len(text)])
    /\ pre < Len(text)
    /\ pos = Len(text)

----------------------------------------------------------------------------
(* C15: the iterator terminates.                                           *)

\* The calls of next() that yielded an item.
Items == {i \in 1..Len(trace) : trace[i] # None}

\* C15: a next() that yields a number advances the cursor by at least one
\* byte, a next() that yields an error leaves the cursor at the end, and
\* the iterator yields at most Len(text) items: every later call, and every
\* call after an error or a None, returns None.
C15_IteratorTerminates ==
    /\ (op = "next" /\ res.tag = "Ok") => pos >= pre + 1
    /\ (op = "next" /\ IsErr(res)) => pos = Len(text)
    /\ Cardinality(Items) <= Len(text)
    /\ \A i \in 1..Len(trace) : i > Len(text) => trace[i] = None
    /\ \A i \in 1..(Len(trace) - 1) :
           (trace[i] = None \/ IsErr(trace[i])) => trace[i + 1] = None

\* A short buffer read to exhaustion: a number, an error whose jump skipped
\* the digit the buffer ends on, then None, and None again.
C15_Witness ==
    /\ Len(text) \in 3..MaxLen
    /\ IsDigit(text[Len(text)])
    /\ ~IsDigit(text[Len(text) - 1])
    /\ Len(trace) = 4
    /\ trace[1].tag = "Ok"
    /\ IsErr(trace[2])
    /\ trace[3] = None
    /\ trace[4] = None
    /\ pos = Len(text)

----------------------------------------------------------------------------
(* C16: the errors of the list iterator and of parse_list_number.          *)

\* C16: every error the iterator yields is InvalidNumber, never
\* UnexpectedEndOfStream or UnexpectedData; parse_list_number called with
\* the cursor at the end returns UnexpectedEndOfStream and leaves the
\* cursor there.
C16_ListErrors ==
    /\ \A i \in 1..Len(trace) :
           IsErr(trace[i]) => trace[i].tag = "InvalidNumber"
    /\ (op = "parse_list_number" /\ pre = Len(text)) =>
           /\ res = UnexpectedEndOfStream
           /\ pos = pre

\* parse_list_number called with the cursor at the end of a non-empty
\* buffer, where next() returns None.
C16_Witness ==
    /\ op = "parse_list_number"
    /\ text # <<>>
    /\ pre = Len(text)
    /\ res = UnexpectedEndOfStream
    /\ IterNext(text, pre) = Outcome(None, pre)

----------------------------------------------------------------------------
(* C17: empty and whitespace-only buffers, and trailing whitespace.        *)

AllSpaces(s) == \A i \in 1..Len(s) : IsSpace(s[i])

\* C17: the iterator yields nothing from an empty buffer; from a non-empty
\* buffer of whitespace it yields one InvalidNumber whose position is one
\* character past the end, and then nothing; and when only whitespace
\* follows a parsed number, the call that yields the number leaves the
\* cursor at the end, so that the next call returns None.
C17_EmptyAndWhitespace ==
    /\ text = <<>> => \A i \in 1..Len(trace) : trace[i] = None
    /\ (text # <<>> /\ AllSpaces(text) /\ trace # <<>>) =>
           /\ trace[1] = InvalidNumber(CharPosition(text, Len(text)))
           /\ CharPosition(text, Len(text)) = Len(text) + 1
           /\ \A i \in 2..Len(trace) : trace[i] = None
    /\ (/\ op = "next"
        /\ res.tag = "Ok"
        /\ AllSpaces(SubSeq(text, LongestLexemeEnd(text, TokenStart) + 1,
                            Len(text)))) =>
           /\ pos = Len(text)
           /\ IterNext(text, pos).res = None

\* A buffer of two or more whitespace bytes, read to exhaustion.
C17_Witness ==
    /\ Len(text) >= 2
    /\ AllSpaces(text)
    /\ Len(trace) = 2
    /\ trace[1].tag = "InvalidNumber"
    /\ trace[2] = None

----------------------------------------------------------------------------
(* C18: a comma after the last number, and a comma before the first.       *)

\* s is one comma with only whitespace around it.
IsTrailingComma(s) ==
    \E i \in 1..Len(s) :
        /\ s[i] = ","
        /\ AllSpaces(SubSeq(s, 1, i - 1))
        /\ AllSpaces(SubSeq(s, i + 1, Len(s)))

\* C18: when one comma, with or without whitespace around it, is all that
\* follows a number the iterator yields, the call leaves the cursor at the
\* end and the next call returns None; "10, 20," yields 10, 20 and None.
\* When the first byte that is not whitespace is a comma, the first item is
\* InvalidNumber at the comma; ",10" yields InvalidNumber(1) and None.
C18_TrailingAndLeadingComma ==
    /\ (/\ op = "next"
        /\ res.tag = "Ok"
        /\ IsTrailingComma(SubSeq(text, LongestLexemeEnd(text, TokenStart) + 1,
                                  Len(text)))) =>
           /\ pos = Len(text)
           /\ IterNext(text, pos).res = None
           /\ ErrIndexes = {}
    /\ (text = <<"1", "0", ",", " ", "2", "0", ",">> /\ Len(trace) >= 3) =>
           /\ trace[1] = Ok(LexemeValue(<<"1", "0">>).val)
           /\ trace[2] = Ok(LexemeValue(<<"2", "0">>).val)
           /\ trace[3] = None
    /\ (/\ trace # <<>>
        /\ FirstNonSpace(text, 0) < Len(text)
        /\ text[FirstNonSpace(text, 0) + 1] = ",") =>
           /\ trace[1] = InvalidNumber(CharPosition(text, FirstNonSpace(text, 0)))
           /\ \A i \in 2..Len(trace) : trace[i] = None
    /\ (text = <<",", "1", "0">> /\ trace # <<>>) => trace[1] = InvalidNumber(1)

\* The iterator has just yielded a number that is followed by whitespace, a
\* comma and whitespace, up to the end of the buffer.
C18_Witness ==
    /\ op = "next"
    /\ res.tag = "Ok"
    /\ Len(text) >= 4
    /\ IsSpace(text[Len(text)])
    /\ text[Len(text) - 1] = ","
    /\ IsSpace(text[Len(text) - 2])
    /\ pos = Len(text)

====
